---- MODULE Spec2Model ----
(***************************************************************************)
(* A model of atm-io-utils' partial-operation wrappers (src/src/partial.rs) *)
(* driven by one task of a cooperative scheduler.  A PartialWrite wraps the *)
(* write end and a PartialRead wraps the read end of one byte stream; each  *)
(* owns its own iterator of PartialOps.  The wrapped stream is a type       *)
(* parameter of the wrappers (R: AsyncRead, W: AsyncWrite): how it answers  *)
(* a delegated call (ready, not ready, error) is chosen by the environment. *)
(* The crate's other parts have a specification each: the operations the    *)
(* wrappers pass through (SpecPassThrough), PartialOp's shrinker            *)
(* (SpecShrink), LimitedReader (SpecLimited), MockDuplex (SpecMock) and the *)
(* macros retry!, read_nz! and write_nz! (SpecMacros).                      *)
(***************************************************************************)
EXTENDS Integers, Sequences, FiniteSets, TLC

VARIABLES
    rops,     \* PartialRead.ops: the iterator the read wrapper owns
    wops,     \* PartialWrite.ops: the iterator the write wrapper owns
    stream,   \* PartialRead.reader / PartialWrite.writer: the wrapped stream
    task,     \* the calling task: "runnable" or "suspended"
    sent,     \* how many bytes of Data the caller has had accepted by poll_write
    received, \* the bytes the caller has obtained from poll_read, in order
    calls,    \* how many directive-aware invocations each wrapper has served
    deferred, \* how many poll_read, poll_write, ... calls made no call on the stream
    last,     \* what the last invocation did and returned
    passed,   \* how many calls outside the directive-aware paths have been made
    shr,      \* a PartialOp being shrunk and the iterator shrink() returned for it
    lim,      \* a LimitedReader and what its caller has read from it
    mock,     \* a MockDuplex and what the last call on it did
    mac       \* a function that uses retry!, read_nz! and write_nz!

\* The wrappers, their stream and their caller.
pvars == <<rops, wops, stream, task, sent, received, calls, deferred, last>>

\* The variables the directive-aware paths do not touch.
others == <<passed, shr, lim, mock, mac>>

vars == <<pvars, others>>

----------------------------------------------------------------------------
\* Bounds of the model.

\* Directives over both iterators together.
MaxOps == 2
\* Invocations over both wrappers together.
MaxCalls == 3
\* The longest buffer a caller passes.
MaxBuf == 2
\* The largest n of a Limited(n).
MaxLimit == 1
\* The number of bytes the writing caller wants to send.
DataLen == 2
\* Calls on both wrappers together where calls outside the directive-aware
\* paths are made too.
MaxPass == 2

Min(a, b) == IF a <= b THEN a ELSE b

\* The writing caller's data: distinct bytes, so order, loss and duplication show.
Data == [i \in 1..DataLen |-> i]

\* The io::Error values the wrapped stream may return.
Errors == {"BrokenPipe", "TimedOut"}

----------------------------------------------------------------------------
\* enum PartialOp, and Option<PartialOp> as Iterator::next returns it.

Unlimited == <<"Unlimited">>
Pending == <<"Pending">>
Limited(n) == <<"Limited", n>>
None == <<"None">>

PartialOp == {Unlimited, Pending} \cup {Limited(n) : n \in 0..MaxLimit}

IsLimited(op) == op[1] = "Limited"

\* Poll<usize, Error> and Poll<(), Error>; Ready(()) is written Ready(0).
Ready(k) == <<"Ready", k>>
OkPending == <<"Ok(Pending)">>
Err(x) == <<"Err", x>>

IsReady(res) == res[1] = "Ready"
IsErr(res) == res[1] = "Err"

----------------------------------------------------------------------------
\* Ops: Iterator<Item = PartialOp>.  The wrappers see an iterator only through
\* next(), so an iterator is how many items it still holds (left) and what it has
\* done so far; which PartialOp an item is, is the caller's choice x, made when
\* the item is pulled.  A Vec's iterator returns None for ever once left is 0.
\* Iterator also allows an iterator that yields again after it has returned
\* None: more is how many items such an iterator holds behind its first None.
\*   asked  how many times next() has been called
\*   taken  how many items next() has yielded (the Some(_) among its answers)
\*   done   next() has returned None at least once
\*   plain  every item yielded so far was Unlimited

NewIter(n, m) ==
    [left |-> n, more |-> m, asked |-> 0, taken |-> 0, done |-> FALSE, plain |-> TRUE]

\* self.ops.next()
OpsNext(it, x) ==
    IF it.left > 0
    THEN [item |-> x,
          it |-> [it EXCEPT !.left = @ - 1, !.asked = @ + 1, !.taken = @ + 1,
                            !.plain = @ /\ x = Unlimited]]
    ELSE [item |-> None,
          it |-> [it EXCEPT !.left = it.more, !.more = 0, !.asked = @ + 1,
                            !.done = TRUE]]

\* The number of items of a Vec's iterator: those yielded and those left.
Length(it) == it.taken + it.left

----------------------------------------------------------------------------
\* The wrapped stream (the R: AsyncRead / W: AsyncWrite the wrappers own): a
\* FIFO byte queue written at one end and read at the other.  seen counts the
\* calls it has received; waker says it holds the task's waker, as a stream
\* does when it answers not-ready.  How it answers a call is the environment's
\* choice e: <<"ready", c>> (it can move c bytes now: one byte, or as many as any
\* caller asks for), <<"pending">>, <<"err", x>>.

Answers == {<<"ready", c>> : c \in {1, MaxBuf}} \cup {<<"pending">>}
               \cup {<<"err", x>> : x \in Errors}

NewStream ==
    [queue |-> <<>>, waker |-> FALSE,
     seen |-> [read |-> 0, write |-> 0, flush |-> 0, close |-> 0]]

\* What the stream does when it does not complete the call op.
StreamIncomplete(s, op, e) ==
    IF e[1] = "pending"
    THEN [stream |-> [s EXCEPT !.seen[op] = @ + 1, !.waker = TRUE],
          res |-> OkPending, bytes |-> <<>>]
    ELSE [stream |-> [s EXCEPT !.seen[op] = @ + 1],
          res |-> Err(e[2]), bytes |-> <<>>]

\* reader.poll_read(cx, window) with a window of w bytes
StreamPollRead(s, w, e) ==
    IF e[1] = "ready"
    THEN LET k == Min(Min(w, e[2]), Len(s.queue))
         IN  [stream |-> [s EXCEPT !.seen.read = @ + 1,
                                   !.queue = SubSeq(@, k + 1, Len(@))],
              res |-> Ready(k), bytes |-> SubSeq(s.queue, 1, k)]
    ELSE StreamIncomplete(s, "read", e)

\* writer.poll_write(cx, window) with the bytes of the window
StreamPollWrite(s, window, e) ==
    IF e[1] = "ready"
    THEN LET k == Min(Len(window), e[2])
         IN  [stream |-> [s EXCEPT !.seen.write = @ + 1,
                                   !.queue = @ \o SubSeq(window, 1, k)],
              res |-> Ready(k), bytes |-> SubSeq(window, 1, k)]
    ELSE StreamIncomplete(s, "write", e)

\* writer.poll_flush(cx)
StreamPollFlush(s, e) ==
    IF e[1] = "ready"
    THEN [stream |-> [s EXCEPT !.seen.flush = @ + 1], res |-> Ready(0), bytes |-> <<>>]
    ELSE StreamIncomplete(s, "flush", e)

\* writer.poll_close(cx)
StreamPollClose(s, e) ==
    IF e[1] = "ready"
    THEN [stream |-> [s EXCEPT !.seen.close = @ + 1], res |-> Ready(0), bytes |-> <<>>]
    ELSE StreamIncomplete(s, "close", e)

----------------------------------------------------------------------------
\* The outcome of one invocation on a wrapper: its iterator and wrapped stream
\* afterwards, the result returned, whether cx.waker().wake() was called, the
\* bytes moved, the item next() returned, and the calls made on the wrapped
\* stream, each with the length of the window it was given, for a write the
\* bytes in that window, how the stream answered and what it returned.

\* A wrapper that replaces the wrapped stream's error by one of its own.
DelegatedErrorWrapped(nx, r, op, window, offered, e) ==
    [ops |-> nx.it, stream |-> r.stream,
     res |-> IF IsErr(r.res) THEN Err("Other") ELSE r.res, woke |-> FALSE,
     bytes |-> r.bytes, item |-> nx.item,
     delegated |-> <<[op |-> op, window |-> window, offered |-> offered,
                      answer |-> e, ret |-> r.res]>>]

Delegated(nx, r, op, window, offered, e) ==
    [ops |-> nx.it, stream |-> r.stream, res |-> r.res, woke |-> FALSE,
     bytes |-> r.bytes, item |-> nx.item,
     delegated |-> <<[op |-> op, window |-> window, offered |-> offered,
                      answer |-> e, ret |-> r.res]>>]

\* A wrapper that returns Ok(Pending) without waking the task.
PendWithoutWake(nx, s) ==
    [ops |-> nx.it, stream |-> s, res |-> OkPending, woke |-> FALSE,
     bytes |-> <<>>, item |-> nx.item, delegated |-> <<>>]

\* cx.waker().wake(); Ok(Pending)
WakeAndPend(nx, s) ==
    [ops |-> nx.it, stream |-> s, res |-> OkPending, woke |-> TRUE,
     bytes |-> <<>>, item |-> nx.item, delegated |-> <<>>]

\* A poll_read that answers not-ready when next() returns None.
PollReadExhaustedPends(ops, s, len, e, x) ==
    LET nx == OpsNext(ops, x) IN
    CASE nx.item = Unlimited ->
            Delegated(nx, StreamPollRead(s, len, e), "read", len, <<>>, e)
      [] nx.item \in {None, Pending} -> WakeAndPend(nx, s)
      [] IsLimited(nx.item) ->
            LET n == Min(nx.item[2], len)
            IN  Delegated(nx, StreamPollRead(s, n, e), "read", n, <<>>, e)

\* A poll_read whose Limited branch hands the whole buffer to the reader.
PollReadLimitIgnored(ops, s, len, e, x) ==
    LET nx == OpsNext(ops, x) IN
    IF nx.item = Pending THEN WakeAndPend(nx, s)
    ELSE Delegated(nx, StreamPollRead(s, len, e), "read", len, <<>>, e)

\* A poll_read that rejects Limited(0): it returns an InvalidInput error and
\* makes no call on the reader.
PollReadZeroRejected(ops, s, len, e, x) ==
    LET nx == OpsNext(ops, x) IN
    CASE nx.item \in {None, Unlimited} ->
            Delegated(nx, StreamPollRead(s, len, e), "read", len, <<>>, e)
      [] nx.item = Pending -> WakeAndPend(nx, s)
      [] nx.item = Limited(0) ->
            [ops |-> nx.it, stream |-> s, res |-> Err("InvalidInput"), woke |-> FALSE,
             bytes |-> <<>>, item |-> nx.item, delegated |-> <<>>]
      [] OTHER ->
            LET n == Min(nx.item[2], len)
            IN  Delegated(nx, StreamPollRead(s, n, e), "read", n, <<>>, e)

\* A poll_read that puts the directive back when the reader did not complete
\* the call, so that the retry finds it again.
PollReadKeepsUnfinished(ops, s, len, e, x) ==
    LET nx == OpsNext(ops, x)
        n == IF IsLimited(nx.item) THEN Min(nx.item[2], len) ELSE len
        o == Delegated(nx, StreamPollRead(s, n, e), "read", n, <<>>, e)
    IN  IF nx.item = Pending THEN WakeAndPend(nx, s)
        ELSE IF IsReady(o.res) THEN o ELSE [o EXCEPT !.ops = ops]

\* <PartialRead as AsyncRead>::poll_read, on a buffer of len bytes
PartialRead_poll_read(ops, s, len, e, x) ==
    LET nx == OpsNext(ops, x) IN
    CASE nx.item \in {None, Unlimited} ->
            Delegated(nx, StreamPollRead(s, len, e), "read", len, <<>>, e)
      [] nx.item = Pending -> WakeAndPend(nx, s)
      [] IsLimited(nx.item) ->
            LET n == Min(nx.item[2], len)
            IN  Delegated(nx, StreamPollRead(s, n, e), "read", n, <<>>, e)

\* A poll_write whose Unlimited branch offers the writer one byte at most.
PollWriteUnlimitedOneByte(ops, s, buf, e, x) ==
    LET nx == OpsNext(ops, x)
        n == Min(IF IsLimited(nx.item) THEN nx.item[2] ELSE 1, Len(buf))
    IN  IF nx.item = Pending THEN WakeAndPend(nx, s)
        ELSE Delegated(nx, StreamPollWrite(s, SubSeq(buf, 1, n), e), "write", n,
                       SubSeq(buf, 1, n), e)

\* A poll_write that reports the whole buffer written whenever the writer took
\* some of it.
PollWriteReportsAll(ops, s, buf, e, x) ==
    LET nx == OpsNext(ops, x)
        n == IF IsLimited(nx.item) THEN Min(nx.item[2], Len(buf)) ELSE Len(buf)
        o == Delegated(nx, StreamPollWrite(s, SubSeq(buf, 1, n), e), "write", n,
                       SubSeq(buf, 1, n), e)
    IN  IF nx.item = Pending THEN WakeAndPend(nx, s)
        ELSE IF IsReady(o.res) THEN [o EXCEPT !.res = Ready(Len(buf))] ELSE o

\* A poll_write whose Pending branch writes before it reports not-ready.
PollWritePendingWrites(ops, s, buf, e, x) ==
    LET nx == OpsNext(ops, x) IN
    CASE nx.item \in {None, Unlimited} ->
            Delegated(nx, StreamPollWrite(s, buf, e), "write", Len(buf), buf, e)
      [] nx.item = Pending -> WakeAndPend(nx, StreamPollWrite(s, buf, e).stream)
      [] IsLimited(nx.item) ->
            LET n == Min(nx.item[2], Len(buf))
            IN  Delegated(nx, StreamPollWrite(s, SubSeq(buf, 1, n), e), "write", n,
                          SubSeq(buf, 1, n), e)

\* A poll_write whose Limited branch offers the writer the last n bytes of the
\* buffer instead of the first.
PollWriteLimitedTail(ops, s, buf, e, x) ==
    LET nx == OpsNext(ops, x) IN
    CASE nx.item \in {None, Unlimited} ->
            Delegated(nx, StreamPollWrite(s, buf, e), "write", Len(buf), buf, e)
      [] nx.item = Pending -> WakeAndPend(nx, s)
      [] IsLimited(nx.item) ->
            LET n == Min(nx.item[2], Len(buf))
                tail == SubSeq(buf, Len(buf) - n + 1, Len(buf))
            IN  Delegated(nx, StreamPollWrite(s, tail, e), "write", n, tail, e)

\* <PartialWrite as AsyncWrite>::poll_write, on the bytes buf
PartialWrite_poll_write(ops, s, buf, e, x) ==
    LET nx == OpsNext(ops, x) IN
    CASE nx.item \in {None, Unlimited} ->
            Delegated(nx, StreamPollWrite(s, buf, e), "write", Len(buf), buf, e)
      [] nx.item = Pending -> WakeAndPend(nx, s)
      [] IsLimited(nx.item) ->
            LET n == Min(nx.item[2], Len(buf))
            IN  Delegated(nx, StreamPollWrite(s, SubSeq(buf, 1, n), e), "write", n,
                          SubSeq(buf, 1, n), e)

\* A poll_flush that looks at the next directive and takes it only if it is Pending.
PollFlushPeeks(ops, s, e, x) ==
    LET nx == OpsNext(ops, x) IN
    IF nx.item = Pending THEN WakeAndPend(nx, s)
    ELSE [Delegated(nx, StreamPollFlush(s, e), "flush", 0, <<>>, e) EXCEPT !.ops = ops]

\* <PartialWrite as AsyncWrite>::poll_flush
PartialWrite_poll_flush(ops, s, e, x) ==
    LET nx == OpsNext(ops, x) IN
    IF nx.item = Pending THEN WakeAndPend(nx, s)
    ELSE Delegated(nx, StreamPollFlush(s, e), "flush", 0, <<>>, e)

\* A poll_close that pulls two directives and acts on the second.
PollCloseSkips(ops, s, e, x) ==
    LET nx == OpsNext(OpsNext(ops, x).it, x) IN
    IF nx.item = Pending THEN WakeAndPend(nx, s)
    ELSE Delegated(nx, StreamPollClose(s, e), "close", 0, <<>>, e)

\* A poll_close that takes Limited(n) to leave nothing to do: it reports the
\* close complete without calling the writer.
PollCloseLimitedSkips(ops, s, e, x) ==
    LET nx == OpsNext(ops, x) IN
    CASE nx.item = Pending -> WakeAndPend(nx, s)
      [] IsLimited(nx.item) ->
            [ops |-> nx.it, stream |-> s, res |-> Ready(0), woke |-> FALSE,
             bytes |-> <<>>, item |-> nx.item, delegated |-> <<>>]
      [] OTHER -> Delegated(nx, StreamPollClose(s, e), "close", 0, <<>>, e)

\* <PartialWrite as AsyncWrite>::poll_close
PartialWrite_poll_close(ops, s, e, x) ==
    LET nx == OpsNext(ops, x) IN
    IF nx.item = Pending THEN WakeAndPend(nx, s)
    ELSE Delegated(nx, StreamPollClose(s, e), "close", 0, <<>>, e)

----------------------------------------------------------------------------
\* <PartialOp as Arbitrary>::shrink.  The iterator it returns is pulled one
\* candidate at a time.

\* The largest n of a Limited(n) that is shrunk.
MaxShrink == 32

\* <usize as Arbitrary>::shrink(x), quickcheck's shrinker of unsigned integers:
\* nothing for 0; otherwise 0, then x - i for i = x/2, x/4, ... while i > 0.
\* zero says the leading 0 has not been yielded yet.
usize_shrink(x) ==
    IF x = 0
    THEN [x |-> 0, i |-> 0, zero |-> FALSE]
    ELSE [x |-> x, i |-> x \div 2, zero |-> TRUE]

\* Option<usize>::Some
Some(k) == <<"Some", k>>

\* next() of that iterator
usize_shrink_next(it) ==
    IF it.zero THEN [item |-> Some(0), it |-> [it EXCEPT !.zero = FALSE]]
    ELSE IF it.x - it.i < it.x
         THEN [item |-> Some(it.x - it.i), it |-> [it EXCEPT !.i = @ \div 2]]
         ELSE [item |-> None, it |-> it]

\* empty_shrinker(): an iterator that yields nothing.
empty_shrinker == usize_shrink(0)

\* self.shrink(): n.shrink() behind the filter and the map for Limited(n),
\* empty_shrinker() for the other variants.
PartialOp_shrink(op) ==
    IF IsLimited(op) THEN usize_shrink(op[2]) ELSE empty_shrinker

\* A shrink whose iterator lacks the filter: it maps every candidate of
\* n.shrink(), 0 included.
ShrinkKeepsZero(it) ==
    LET r == usize_shrink_next(it)
    IN  IF r.item = None THEN r ELSE [item |-> Limited(r.item[2]), it |-> r.it]

\* next() of the iterator shrink() returns for a Limited:
\* n.shrink().filter(|k| k != &0).map(PartialOp::Limited)
RECURSIVE PartialOp_shrink_next(_)
PartialOp_shrink_next(it) ==
    LET r == usize_shrink_next(it)
    IN  IF r.item = None THEN r
        ELSE IF r.item[2] # 0 THEN [item |-> Limited(r.item[2]), it |-> r.it]
        ELSE PartialOp_shrink_next(r.it)

\* Nothing is being shrunk.
NoShrink ==
    [self |-> None, it |-> empty_shrinker, out |-> None, n |-> 0, pulls |-> 0]

----------------------------------------------------------------------------
\* struct LimitedReader { inner, remaining } around a reader that holds bytes.

\* LimitedReader::new(inner, limit)
LimitedReader_new(inner, limit) == [inner |-> inner, remaining |-> limit]

\* <LimitedReader as AsyncRead>::poll_read, on a buffer of len bytes
LimitedReader_poll_read(self, len, e) ==
    LET upper == Min(self.remaining, len)
        r == StreamPollRead(self.inner, upper, e)
    IN  [self |-> [self EXCEPT !.inner = r.stream], res |-> r.res, bytes |-> r.bytes]

\* No LimitedReader has been constructed.  Of a LimitedReader in use, limit is
\* the limit it was constructed with, total the sum of the byte counts its
\* poll_read has returned, before that sum before the last call, reads the
\* number of calls and res what the last call returned.
NoLimitedReader ==
    [made |-> FALSE, self |-> LimitedReader_new(NewStream, 0), limit |-> 0,
     total |-> 0, before |-> 0, reads |-> 0, res |-> Ready(0)]

----------------------------------------------------------------------------
\* struct MockDuplex { reads, writes }: two VecDeque<u8>.

\* io::Result<usize>::Ok, and a call that panics instead of returning.
Ok(k) == <<"Ok", k>>
Panic == <<"panic">>

\* MockDuplex::new()
MockDuplex_new == [reads |-> <<>>, writes |-> <<>>]

\* VecDeque::drain(0..n): it panics when n is greater than the length of the
\* deque, before it removes anything, and takes the first n elements otherwise.
Drain(q, n) ==
    IF n > Len(q)
    THEN [panic |-> TRUE, taken |-> <<>>, rest |-> q]
    ELSE [panic |-> FALSE, taken |-> SubSeq(q, 1, n), rest |-> SubSeq(q, n + 1, Len(q))]

\* MockDuplex::add_read_data(bytes)
MockDuplex_add_read_data(self, bytes) ==
    [self |-> [self EXCEPT !.reads = @ \o bytes], res |-> Ok(0), buf |-> <<>>]

\* <MockDuplex as Read>::read, on a buffer of len bytes
MockDuplex_read(self, len) ==
    LET d == Drain(self.reads, len)
    IN  IF d.panic THEN [self |-> self, res |-> Panic, buf |-> <<>>]
        ELSE [self |-> [self EXCEPT !.reads = d.rest], res |-> Ok(Len(d.taken)),
              buf |-> d.taken]

\* <MockDuplex as Write>::write
MockDuplex_write(self, bytes) ==
    [self |-> [self EXCEPT !.writes = @ \o bytes], res |-> Ok(Len(bytes)),
     buf |-> <<>>]

\* MockDuplex::drain_write_data, on a buffer of len bytes; the count it
\* returns is written Ok(count).
MockDuplex_drain_write_data(self, len) ==
    LET d == Drain(self.writes, len)
    IN  IF d.panic THEN [self |-> self, res |-> Panic, buf |-> <<>>]
        ELSE [self |-> [self EXCEPT !.writes = d.rest], res |-> Ok(Len(d.taken)),
              buf |-> d.taken]

\* A MockDuplex on which no call has been made.  self is the MockDuplex, pre
\* what it was before the last call, op, len, res and buf that call, the
\* length of the buffer it was given, what it returned and what it put into the
\* buffer; fed counts the bytes handed to add_read_data and write.
NoMockCall ==
    [self |-> MockDuplex_new, pre |-> MockDuplex_new, op |-> "none", len |-> 0,
     res |-> Ok(0), buf |-> <<>>, fed |-> 0, calls |-> 0]

----------------------------------------------------------------------------
\* The macros retry!, read_nz! and write_nz!.  A use of a macro either
\* evaluates to a value, and the enclosing function goes on, or makes the
\* enclosing function return; retry! may also go round its loop again.

\* io::Error: a kind and a payload.
IoError(kind, msg) == <<kind, msg>>
Kind(err) == err[1]

\* e.into() and From::from(e): the error of the enclosing function's error type
\* made from e.
Into(err) == <<"From", err>>

Value(v) == <<"value", v>>
Return(r) == <<"return", r>>
Looping == <<"loop">>

\* A retry! that is std's try!: it returns an Interrupted error like any other.
RetryIsTry(r) ==
    IF r[1] = "Ok" THEN Value(r[2]) ELSE Return(Err(Into(r[2])))

\* One turn of the loop of retry!($e), $e having evaluated to r.
retry(r) ==
    CASE r[1] = "Ok" -> Value(r[2])
      [] r[1] = "Err" /\ Kind(r[2]) = "Interrupted" -> Looping
      [] OTHER -> Return(Err(Into(r[2])))

\* A read_nz! that is try_ready!: Ready(0) evaluates to 0.
ReadNzIsTryReady(r, msg) ==
    CASE IsReady(r) -> Value(r[2])
      [] r = OkPending -> Return(OkPending)
      [] OTHER -> Return(Err(Into(r[2])))

\* read_nz!($e, $msg), $e having evaluated to r
read_nz(r, msg) ==
    CASE r = Ready(0) -> Return(Err(Into(IoError("UnexpectedEof", msg))))
      [] IsReady(r) -> Value(r[2])
      [] r = OkPending -> Return(OkPending)
      [] OTHER -> Return(Err(Into(r[2])))

\* write_nz!($e, $msg), $e having evaluated to r
write_nz(r, msg) ==
    CASE r = Ready(0) -> Return(Err(Into(IoError("WriteZero", msg))))
      [] IsReady(r) -> Value(r[2])
      [] r = OkPending -> Return(OkPending)
      [] OTHER -> Return(Err(Into(r[2])))

\* A function that has used no macro yet.  uses counts the macro uses begun,
\* macro, input, msg and out are the last one: the macro, what its expression
\* evaluated to last, its message and the outcome; evals counts the evaluations
\* of the expression in that use and again those that gave an Interrupted error;
\* returned says the function has returned.
NoMacroUse ==
    [uses |-> 0, macro |-> "none", input |-> Ok(0), msg |-> "", out |-> Value(0),
     evals |-> 0, again |-> 0, returned |-> FALSE]

----------------------------------------------------------------------------
\* The state after construction: PartialRead::new(reader, ops) and
\* PartialWrite::new(writer, ops) around the two ends of a fresh stream, with
\* two iterators of at most MaxOps items together; again is how many items an
\* iterator may hold behind its first None.

\* No call outside the directive-aware paths has been made, and nothing else
\* is in use.
OthersInit ==
    /\ passed = 0
    /\ shr = NoShrink
    /\ lim = NoLimitedReader
    /\ mock = NoMockCall
    /\ mac = NoMacroUse

NoCall ==
    [dec |-> "none", op |-> "none", len |-> 0, buf |-> <<>>, item |-> None,
     res |-> Ready(0), woke |-> FALSE, bytes |-> <<>>, delegated |-> <<>>]

InitWith(again) ==
    /\ \E rn \in 0..MaxOps, rm \in again :
       \E wn \in 0..MaxOps, wm \in again :
          /\ rn + rm + wn + wm <= MaxOps
          /\ rops = NewIter(rn, rm)
          /\ wops = NewIter(wn, wm)
    /\ stream = NewStream
    /\ task = "runnable"
    /\ sent = 0
    /\ received = <<>>
    /\ calls = [PartialRead |-> 0, PartialWrite |-> 0]
    /\ deferred = [read |-> 0, write |-> 0, flush |-> 0, close |-> 0]
    /\ last = NoCall
    /\ OthersInit

\* Both iterators are lists of PartialOps (a Vec's iterator, say).
Init == InitWith({0})

\* Both iterators are iterators that yield again after they have returned None
\* (Iterator does not require next() to keep returning None): each holds one
\* item behind its first None.
InitAnyIter == InitWith({1})

\* The task is polled only while it is runnable; MaxCalls bounds the run.
CanInvoke == task = "runnable" /\ calls.PartialRead + calls.PartialWrite < MaxCalls

\* The executor parks a task that returns Ok(Pending) until its waker is used;
\* a wake during the poll itself puts it straight back on the run queue.
TaskAfter(o) == IF o.res = OkPending /\ ~o.woke THEN "suspended" ELSE "runnable"

\* What an invocation on wrapper dec leaves in calls, deferred, last and task.
Observe(dec, op, len, buf, o) ==
    /\ calls' = [calls EXCEPT ![dec] = @ + 1]
    /\ deferred' = [deferred EXCEPT ![op] = IF o.delegated = <<>> THEN @ + 1 ELSE @]
    /\ last' = [dec |-> dec, op |-> op, len |-> len, buf |-> buf, item |-> o.item,
                res |-> o.res, woke |-> o.woke, bytes |-> o.bytes,
                delegated |-> o.delegated]
    /\ task' = TaskAfter(o)

\* The task calls poll_read on the PartialRead with a buffer of len bytes.
PollRead(len, e, x) ==
    /\ CanInvoke
    /\ LET o == PartialRead_poll_read(rops, stream, len, e, x)
       IN  /\ rops' = o.ops
           /\ stream' = o.stream
           /\ received' = received \o o.bytes
           /\ Observe("PartialRead", "read", len, <<>>, o)
    /\ UNCHANGED <<wops, sent, others>>

\* The task calls poll_write on the PartialWrite with the next len bytes of Data.
PollWrite(len, e, x) ==
    /\ CanInvoke
    /\ len <= DataLen - sent
    /\ LET buf == SubSeq(Data, sent + 1, sent + len)
           o == PartialWrite_poll_write(wops, stream, buf, e, x)
       IN  /\ wops' = o.ops
           /\ stream' = o.stream
           /\ sent' = IF IsReady(o.res) THEN sent + o.res[2] ELSE sent
           /\ Observe("PartialWrite", "write", len, buf, o)
    /\ UNCHANGED <<rops, received, others>>

\* The task calls poll_flush on the PartialWrite.
PollFlush(e, x) ==
    /\ CanInvoke
    /\ LET o == PartialWrite_poll_flush(wops, stream, e, x)
       IN  /\ wops' = o.ops
           /\ stream' = o.stream
           /\ Observe("PartialWrite", "flush", 0, <<>>, o)
    /\ UNCHANGED <<rops, sent, received, others>>

\* The task calls poll_close on the PartialWrite.
PollClose(e, x) ==
    /\ CanInvoke
    /\ LET o == PartialWrite_poll_close(wops, stream, e, x)
       IN  /\ wops' = o.ops
           /\ stream' = o.stream
           /\ Observe("PartialWrite", "close", 0, <<>>, o)
    /\ UNCHANGED <<rops, sent, received, others>>

\* The wrapped stream becomes ready and uses the waker it holds.
StreamEvent ==
    /\ stream.waker
    /\ stream' = [stream EXCEPT !.waker = FALSE]
    /\ task' = "runnable"
    /\ UNCHANGED <<rops, wops, sent, received, calls, deferred, last, others>>

\* The PartialOps the next item of an iterator may be, if it holds one.
Items(it) == IF it.left > 0 THEN PartialOp ELSE {Unlimited}

Next ==
    \/ \E len \in 0..MaxBuf, e \in Answers, x \in Items(rops) : PollRead(len, e, x)
    \/ \E len \in 0..MaxBuf, e \in Answers, x \in Items(wops) : PollWrite(len, e, x)
    \/ \E e \in Answers, x \in Items(wops) : PollFlush(e, x)
    \/ \E e \in Answers, x \in Items(wops) : PollClose(e, x)
    \/ StreamEvent

Spec == Init /\ [][Next]_vars

SpecAnyIter == InitAnyIter /\ [][Next]_vars

----------------------------------------------------------------------------
\* The operations outside the directive-aware paths: impl AsyncWrite for
\* PartialRead, impl AsyncRead for PartialWrite, get_ref and get_mut.  The
\* wrapped stream is a duplex here, as these impls require.

\* What an invocation carries as its item when it made no next() call.
NotAsked == <<"NotAsked">>

\* The outcome of a call that goes to the wrapped stream and nowhere else.
Forwarded(ops, r, op, window, offered, e) ==
    Delegated([it |-> ops, item |-> NotAsked], r, op, window, offered, e)

\* writer.poll_vectored_write(cx, vec), as futures-io provides it: a poll_write
\* of the first buffer, Ready(0) for no buffer at all.
StreamPollVectoredWrite(s, vec, e) ==
    IF vec = <<>>
    THEN [stream |-> s, res |-> Ready(0), bytes |-> <<>>]
    ELSE StreamPollWrite(s, vec[1], e)

\* <PartialRead as AsyncWrite>::poll_write
PartialRead_poll_write(ops, s, buf, e) ==
    Forwarded(ops, StreamPollWrite(s, buf, e), "write", Len(buf), buf, e)

\* <PartialRead as AsyncWrite>::poll_flush
PartialRead_poll_flush(ops, s, e) ==
    Forwarded(ops, StreamPollFlush(s, e), "flush", 0, <<>>, e)

\* <PartialRead as AsyncWrite>::poll_close
PartialRead_poll_close(ops, s, e) ==
    Forwarded(ops, StreamPollClose(s, e), "close", 0, <<>>, e)

\* <PartialRead as AsyncWrite>::poll_vectored_write
PartialRead_poll_vectored_write(ops, s, vec, e) ==
    Forwarded(ops, StreamPollVectoredWrite(s, vec, e), "vectored_write", Len(vec),
              vec, e)

\* A poll_read on a PartialWrite written like the one on a PartialRead: it
\* pulls a directive (Pending, if the iterator holds one) and obeys it.
PassReadConsults(ops, s, len, e) == PartialRead_poll_read(ops, s, len, e, Pending)

\* <PartialWrite as AsyncRead>::poll_read
PartialWrite_poll_read(ops, s, len, e) ==
    Forwarded(ops, StreamPollRead(s, len, e), "read", len, <<>>, e)

\* PartialRead::get_ref and get_mut, PartialWrite::get_ref and get_mut: the
\* wrapped stream itself.
PartialRead_get_ref(ops, s) == s
PartialRead_get_mut(ops, s) == s
PartialWrite_get_ref(ops, s) == s
PartialWrite_get_mut(ops, s) == s

\* The task makes a call while it is runnable; MaxPass bounds the calls of
\* both kinds together.
CanPass ==
    /\ task = "runnable"
    /\ calls.PartialRead + calls.PartialWrite + passed < MaxPass

\* What a call outside the directive-aware paths leaves in passed, last and task.
ObservePass(dec, op, len, buf, o) ==
    /\ passed' = passed + 1
    /\ last' = [dec |-> dec, op |-> op, len |-> len, buf |-> buf, item |-> o.item,
                res |-> o.res, woke |-> o.woke, bytes |-> o.bytes,
                delegated |-> o.delegated]
    /\ task' = TaskAfter(o)
    /\ UNCHANGED <<calls, deferred, shr, lim, mock, mac>>

\* The task calls poll_write on the PartialRead with the next len bytes of Data.
WriteOnPartialRead(len, e) ==
    /\ CanPass
    /\ len <= DataLen - sent
    /\ LET buf == SubSeq(Data, sent + 1, sent + len)
           o == PartialRead_poll_write(rops, stream, buf, e)
       IN  /\ rops' = o.ops
           /\ stream' = o.stream
           /\ sent' = IF IsReady(o.res) THEN sent + o.res[2] ELSE sent
           /\ ObservePass("PartialRead", "write", len, buf, o)
    /\ UNCHANGED <<wops, received>>

\* The task calls poll_flush on the PartialRead.
FlushOnPartialRead(e) ==
    /\ CanPass
    /\ LET o == PartialRead_poll_flush(rops, stream, e)
       IN  /\ rops' = o.ops
           /\ stream' = o.stream
           /\ ObservePass("PartialRead", "flush", 0, <<>>, o)
    /\ UNCHANGED <<wops, sent, received>>

\* The task calls poll_close on the PartialRead.
CloseOnPartialRead(e) ==
    /\ CanPass
    /\ LET o == PartialRead_poll_close(rops, stream, e)
       IN  /\ rops' = o.ops
           /\ stream' = o.stream
           /\ ObservePass("PartialRead", "close", 0, <<>>, o)
    /\ UNCHANGED <<wops, sent, received>>

\* The task calls poll_vectored_write on the PartialRead with the next len
\* bytes of Data in two buffers, the first of k bytes (no buffer when len is 0).
VectoredWriteOnPartialRead(len, k, e) ==
    /\ CanPass
    /\ len <= DataLen - sent
    /\ k <= len
    /\ LET buf == SubSeq(Data, sent + 1, sent + len)
           vec == IF len = 0 THEN <<>>
                  ELSE <<SubSeq(buf, 1, k), SubSeq(buf, k + 1, len)>>
           o == PartialRead_poll_vectored_write(rops, stream, vec, e)
       IN  /\ rops' = o.ops
           /\ stream' = o.stream
           /\ sent' = IF IsReady(o.res) THEN sent + o.res[2] ELSE sent
           /\ ObservePass("PartialRead", "vectored_write", Len(vec), vec, o)
    /\ UNCHANGED <<wops, received>>

\* The task calls poll_read on the PartialWrite with a buffer of len bytes.
ReadOnPartialWrite(len, e) ==
    /\ CanPass
    /\ LET o == PartialWrite_poll_read(wops, stream, len, e)
       IN  /\ wops' = o.ops
           /\ stream' = o.stream
           /\ received' = received \o o.bytes
           /\ ObservePass("PartialWrite", "read", len, <<>>, o)
    /\ UNCHANGED <<rops, sent>>

\* The task borrows the wrapped stream of wrapper dec with get_ref and looks at
\* the bytes it holds.
GetRef(dec) ==
    /\ CanPass
    /\ LET s == IF dec = "PartialRead" THEN PartialRead_get_ref(rops, stream)
                ELSE PartialWrite_get_ref(wops, stream)
           o == [ops |-> <<>>, stream |-> s, res |-> Ready(0), woke |-> FALSE,
                 bytes |-> s.queue, item |-> NotAsked, delegated |-> <<>>]
       IN  ObservePass(dec, "get_ref", 0, <<>>, o)
    /\ UNCHANGED <<rops, wops, stream, sent, received>>

\* The task borrows the wrapped stream of wrapper dec with get_mut and calls
\* poll_flush on it.
GetMut(dec, e) ==
    /\ CanPass
    /\ LET s == IF dec = "PartialRead" THEN PartialRead_get_mut(rops, stream)
                ELSE PartialWrite_get_mut(wops, stream)
           o == Forwarded(<<>>, StreamPollFlush(s, e), "flush", 0, <<>>, e)
       IN  /\ stream' = o.stream
           /\ ObservePass(dec, "get_mut", 0, <<>>, o)
    /\ UNCHANGED <<rops, wops, sent, received>>

\* One answer of each kind from the wrapped stream: it completes the call as far
\* as it can, it is not ready, it fails.
PassAnswers == {<<"ready", MaxBuf>>, <<"pending">>, <<"err", "BrokenPipe">>}

PassNext ==
    \/ \E len \in 0..MaxBuf, e \in PassAnswers, x \in Items(rops) :
          CanPass /\ PollRead(len, e, x)
    \/ \E len \in 0..MaxBuf, e \in PassAnswers, x \in Items(wops) :
          CanPass /\ PollWrite(len, e, x)
    \/ \E len \in 0..MaxBuf, e \in PassAnswers : WriteOnPartialRead(len, e)
    \/ \E e \in PassAnswers : FlushOnPartialRead(e)
    \/ \E e \in PassAnswers : CloseOnPartialRead(e)
    \/ \E len \in 0..MaxBuf, k \in 0..MaxBuf, e \in PassAnswers :
          VectoredWriteOnPartialRead(len, k, e)
    \/ \E len \in 0..MaxBuf, e \in PassAnswers : ReadOnPartialWrite(len, e)
    \/ \E dec \in {"PartialRead", "PartialWrite"} : GetRef(dec)
    \/ \E dec \in {"PartialRead", "PartialWrite"}, e \in PassAnswers : GetMut(dec, e)
    \/ StreamEvent

\* Both wrappers around a duplex, used through every operation they offer but
\* poll_flush and poll_close on the PartialWrite.
SpecPassThrough == Init /\ [][PassNext]_vars

----------------------------------------------------------------------------
\* Shrinking a PartialOp.

\* The PartialOps that are shrunk.
ShrinkInputs == {Unlimited, Pending} \cup {Limited(n) : n \in 0..MaxShrink}

\* quickcheck calls shrink() on a failing PartialOp.
Shrink(op) ==
    /\ shr = NoShrink
    /\ shr' = [self |-> op, it |-> PartialOp_shrink(op), out |-> None, n |-> 0,
               pulls |-> 0]
    /\ UNCHANGED <<pvars, passed, lim, mock, mac>>

\* quickcheck pulls the next candidate, until the iterator returns None.
ShrinkPull ==
    /\ shr.self # None
    /\ shr.pulls = 0 \/ shr.out # None
    /\ LET r == PartialOp_shrink_next(shr.it)
       IN  shr' = [shr EXCEPT !.it = r.it, !.out = r.item, !.pulls = @ + 1,
                              !.n = IF r.item = None THEN @ ELSE @ + 1]
    /\ UNCHANGED <<pvars, passed, lim, mock, mac>>

ShrinkNext ==
    \/ \E op \in ShrinkInputs : Shrink(op)
    \/ ShrinkPull

\* The wrappers idle: nothing is wrapped in use.
IdleInit == InitWith({0}) /\ rops.left = 0 /\ wops.left = 0

SpecShrink == IdleInit /\ [][ShrinkNext]_vars

----------------------------------------------------------------------------
\* Reading through a LimitedReader.

\* The poll_read calls made on a LimitedReader.
MaxReads == 3

\* LimitedReader::new around a reader that holds the first k bytes of Data.
LimitedNew(l, k) ==
    /\ ~lim.made
    /\ lim' = [NoLimitedReader EXCEPT
                 !.made = TRUE, !.limit = l,
                 !.self = LimitedReader_new(
                              [NewStream EXCEPT !.queue = SubSeq(Data, 1, k)], l)]
    /\ UNCHANGED <<pvars, passed, shr, mock, mac>>

\* The caller calls poll_read on the LimitedReader with a buffer of len bytes.
LimitedPollRead(len, e) ==
    /\ lim.made
    /\ lim.reads < MaxReads
    /\ LET o == LimitedReader_poll_read(lim.self, len, e)
       IN  lim' = [lim EXCEPT
                     !.self = o.self, !.res = o.res, !.reads = @ + 1,
                     !.before = lim.total,
                     !.total = IF IsReady(o.res) THEN @ + o.res[2] ELSE @]
    /\ UNCHANGED <<pvars, passed, shr, mock, mac>>

LimitedNext ==
    \/ \E l \in 0..MaxLimit, k \in 0..DataLen : LimitedNew(l, k)
    \/ \E len \in 0..MaxBuf, e \in Answers : LimitedPollRead(len, e)

SpecLimited == IdleInit /\ [][LimitedNext]_vars

----------------------------------------------------------------------------
\* Calls on a MockDuplex.

\* The calls made on a MockDuplex.
MaxMockCalls == 3

\* A call is made while the program has not panicked.
CanCallMock == mock.res # Panic /\ mock.calls < MaxMockCalls

\* What the call op, with a buffer of len bytes, leaves in mock.
MockAfter(op, len, fed, o) ==
    /\ mock' = [self |-> o.self, pre |-> mock.self, op |-> op, len |-> len,
                res |-> o.res, buf |-> o.buf, fed |-> mock.fed + fed,
                calls |-> mock.calls + 1]
    /\ UNCHANGED <<pvars, passed, shr, lim, mac>>

\* add_read_data with the next len bytes of Data
MockAddReadData(len) ==
    /\ CanCallMock
    /\ len <= DataLen - mock.fed
    /\ MockAfter("add_read_data", len, len,
                 MockDuplex_add_read_data(mock.self,
                                          SubSeq(Data, mock.fed + 1, mock.fed + len)))

\* read into a buffer of len bytes
MockRead(len) ==
    /\ CanCallMock
    /\ MockAfter("read", len, 0, MockDuplex_read(mock.self, len))

\* write of the next len bytes of Data
MockWrite(len) ==
    /\ CanCallMock
    /\ len <= DataLen - mock.fed
    /\ MockAfter("write", len, len,
                 MockDuplex_write(mock.self, SubSeq(Data, mock.fed + 1, mock.fed + len)))

\* drain_write_data into a buffer of len bytes
MockDrainWriteData(len) ==
    /\ CanCallMock
    /\ MockAfter("drain_write_data", len, 0,
                 MockDuplex_drain_write_data(mock.self, len))

MockNext ==
    \/ \E len \in 0..MaxBuf : MockAddReadData(len)
    \/ \E len \in 0..MaxBuf : MockRead(len)
    \/ \E len \in 0..MaxBuf : MockWrite(len)
    \/ \E len \in 0..MaxBuf : MockDrainWriteData(len)

SpecMock == IdleInit /\ [][MockNext]_vars

----------------------------------------------------------------------------
\* A function that uses the macros, one after the other, until one of them
\* makes it return.

\* The macro uses in the function.
MaxUses == 3
\* The evaluations of the expression in one retry! that give Interrupted.
MaxAgain == 2

\* The io::Errors an expression evaluates to.
IoErrors ==
    {IoError(k, m) : k \in {"Interrupted", "BrokenPipe"}, m \in {"a", "b"}}

\* What an expression given to read_nz! or write_nz! evaluates to.
PollResults ==
    {Ready(n) : n \in 0..MaxBuf} \cup {OkPending} \cup {Err(x) : x \in IoErrors}

\* What an expression given to retry! evaluates to.
IoResults == {Ok(n) : n \in 0..MaxBuf} \cup {Err(x) : x \in IoErrors}

\* The messages given to read_nz! and write_nz!.
Messages == {"eof", "full"}

\* The function reaches a macro use: it has not returned and is in no loop.
AtMacro == ~mac.returned /\ mac.out # Looping /\ mac.uses < MaxUses

\* What a use of macro (or one more turn of its loop) leaves in mac.
MacroAfter(macro, r, msg, out, first) ==
    /\ mac' = [uses |-> IF first THEN mac.uses + 1 ELSE mac.uses,
               macro |-> macro, input |-> r, msg |-> msg, out |-> out,
               evals |-> IF first THEN 1 ELSE mac.evals + 1,
               again |-> (IF first THEN 0 ELSE mac.again)
                            + (IF out = Looping THEN 1 ELSE 0),
               returned |-> out[1] = "return"]
    /\ UNCHANGED <<pvars, passed, shr, lim, mock>>

\* read_nz!(e, msg), e evaluating to r
ReadNz(r, msg) == AtMacro /\ MacroAfter("read_nz", r, msg, read_nz(r, msg), TRUE)

\* write_nz!(e, msg), e evaluating to r
WriteNz(r, msg) == AtMacro /\ MacroAfter("write_nz", r, msg, write_nz(r, msg), TRUE)

\* retry!(e) is entered: e is evaluated for the first time, to r.
RetryEnter(r) == AtMacro /\ MacroAfter("retry", r, "", retry(r), TRUE)

\* The loop of retry!(e) goes round: e is evaluated again, to r.  MaxAgain
\* bounds the Interrupted errors in a row.
RetryAgain(r) ==
    /\ ~mac.returned
    /\ mac.out = Looping
    /\ retry(r) = Looping => mac.again < MaxAgain
    /\ MacroAfter("retry", r, "", retry(r), FALSE)

MacroNext ==
    \/ \E r \in PollResults, msg \in Messages : ReadNz(r, msg)
    \/ \E r \in PollResults, msg \in Messages : WriteNz(r, msg)
    \/ \E r \in IoResults : RetryEnter(r)
    \/ \E r \in IoResults : RetryAgain(r)

SpecMacros == IdleInit /\ [][MacroNext]_vars

----------------------------------------------------------------------------
\* Properties.

Wrappers == {"PartialRead", "PartialWrite"}

\* The iterator wrapper dec owns.
OpsOf(dec) == IF dec = "PartialRead" THEN rops ELSE wops

\* An invocation has been made (last describes it).
Invoked == last.dec \in Wrappers

\* The window the directive item gives operation op on a buffer of len bytes.
WindowFor(op, item, len) ==
    IF IsLimited(item) /\ op \in {"read", "write"} THEN Min(item[2], len) ELSE len

\* Invocation l made exactly one call on the wrapped stream, a call of l's own
\* operation with a window of w bytes, and returned what that call returned.
DelegatedWith(l, w) ==
    /\ Len(l.delegated) = 1
    /\ l.delegated[1].op = l.op
    /\ l.delegated[1].window = w
    /\ l.op = "write" => l.delegated[1].offered = SubSeq(l.buf, 1, w)
    /\ l.res = l.delegated[1].ret
    /\ ~l.woke

\* Invocation l made no call on the wrapped stream, woke the task and returned
\* Ok(Pending).
DeferredWithWake(l) == l.delegated = <<>> /\ l.res = OkPending /\ l.woke

\* C1: every poll_read on a PartialRead and every poll_write, poll_flush and
\* poll_close on a PartialWrite calls next() exactly once, whatever branch it
\* takes: after k invocations on a wrapper whose iterator is a list of m
\* directives, min(k, m) directives have been consumed, and the count stays at m
\* once the list is exhausted.
C1_OneDirectivePerInvocation ==
    \A dec \in Wrappers :
        /\ OpsOf(dec).asked = calls[dec]
        /\ OpsOf(dec).taken = Min(calls[dec], Length(OpsOf(dec)))

\* C1 witness: a PartialWrite with a list of two directives has served three
\* invocations: a deferred write among the first two, then a flush that found
\* the list exhausted.
C1_Witness ==
    /\ calls.PartialWrite = 3
    /\ wops.taken = 2
    /\ wops.left = 0
    /\ last.op = "flush"
    /\ last.item = None
    /\ deferred.write = 1

\* C2: directives are consumed in the order of the invocations, one each: the
\* k-th invocation on a wrapper makes the k-th next() call on its iterator, and
\* what it does (delegate with the whole buffer, delegate with a truncated
\* window, or answer not-ready without delegating) is what the item that call
\* returned prescribes, also when write, flush and close are interleaved.
C2_DirectiveOrder ==
    Invoked =>
        /\ OpsOf(last.dec).asked = calls[last.dec]
        /\ last.item = None <=> OpsOf(last.dec).taken < calls[last.dec]
        /\ IF last.item = Pending
           THEN DeferredWithWake(last)
           ELSE DelegatedWith(last, WindowFor(last.op, last.item, last.len))

\* C2 witness: the third invocation on a PartialWrite, a close after a deferred
\* write and a delegated flush, is governed by the third next() call.
C2_Witness ==
    /\ calls.PartialWrite = 3
    /\ calls.PartialRead = 0
    /\ deferred.write = 1
    /\ stream.seen.flush = 1
    /\ last.op = "close"
    /\ wops.asked = 3
    /\ IsReady(last.res)

\* C3: an invocation that consumes a Pending directive returns Ok(Pending) and
\* calls cx.waker().wake() during that invocation; it returns neither an error
\* nor a byte count.
C3_PendingWakes ==
    (Invoked /\ last.item = Pending) =>
        /\ last.res = OkPending
        /\ last.woke
        /\ ~IsErr(last.res)
        /\ ~IsReady(last.res)

\* C3 witness: a poll_close consumed a Pending directive.
C3_Witness == last.op = "close" /\ last.item = Pending /\ last.woke

\* Two poll_write calls were made on the PartialWrite and nothing else: the
\* first consumed Pending, the second Unlimited.
PendingThenUnlimitedWrite ==
    /\ calls.PartialWrite = 2
    /\ deferred.write = 1
    /\ stream.seen.write + deferred.write = 2
    /\ last.op = "write"
    /\ last.item = Unlimited

\* C4: an invocation that consumes a Pending directive makes no call on the
\* wrapped stream and leaves its state and its call counts as they were; with
\* the directives [Pending, Unlimited] on a PartialWrite, the wrapped stream has
\* seen exactly one write call after two poll_write calls.
C4_PendingDoesNotDelegate ==
    /\ [][(calls' # calls /\ last'.item = Pending) =>
            (stream' = stream /\ last'.delegated = <<>>)]_vars
    /\ [](PendingThenUnlimitedWrite => stream.seen.write = 1)

\* C4 witness: the [Pending, Unlimited] scenario, the second call having written.
C4_Witness ==
    /\ PendingThenUnlimitedWrite
    /\ stream.seen.write = 1
    /\ last.res = Ready(2)
    /\ stream.queue = Data

\* C5: a poll_read or poll_write that consumes Limited(n) on a buffer of L bytes
\* calls the wrapped stream exactly once, with the first min(n, L) bytes of the
\* buffer as its window, and reports a byte count of at most min(n, L).
C5_LimitedWindow ==
    (Invoked /\ IsLimited(last.item) /\ last.op \in {"read", "write"}) =>
        LET w == Min(last.item[2], last.len) IN
        /\ DelegatedWith(last, w)
        /\ IsReady(last.res) => last.res[2] <= w
        /\ Len(last.bytes) <= w

\* C5 witness: a poll_read with a two-byte buffer consumed Limited(1) while the
\* stream held two bytes and could give both, and one byte was read.
C5_Witness ==
    /\ last.op = "read"
    /\ last.item = Limited(1)
    /\ last.len = 2
    /\ last.delegated # <<>>
    /\ last.delegated[1].answer = <<"ready", MaxBuf>>
    /\ last.res = Ready(1)
    /\ Len(stream.queue) = 1

\* The call op made on the wrapped stream itself, with the caller's whole buffer.
DirectCall(s, op, len, buf, e) ==
    CASE op = "read" -> StreamPollRead(s, len, e)
      [] op = "write" -> StreamPollWrite(s, buf, e)
      [] op = "flush" -> StreamPollFlush(s, e)
      [] op = "close" -> StreamPollClose(s, e)

\* C6: while the directives a wrapper has consumed are all Unlimited (or its
\* iterator is empty), each invocation on it returns what the same call made
\* directly on the wrapped stream returns (count, not-ready or error), moves the
\* same bytes and leaves the wrapped stream in the same state; so a run of
\* invocations on the wrapper and the same run on the wrapped stream agree.
C6_UnlimitedIsTransparent ==
    [][(calls' # calls /\ (IF last'.dec = "PartialRead" THEN rops' ELSE wops').plain) =>
          /\ last'.delegated # <<>>
          /\ LET d == DirectCall(stream, last'.op, last'.len, last'.buf,
                                 last'.delegated[1].answer)
             IN  /\ stream' = d.stream
                 /\ last'.res = d.res
                 /\ last'.bytes = d.bytes
          /\ ~last'.woke]_vars

\* C6 witness: a PartialRead that has consumed two Unlimited directives and
\* nothing else has just read two bytes into a two-byte buffer.
C6_Witness ==
    /\ last.dec = "PartialRead"
    /\ rops.plain
    /\ rops.taken = 2
    /\ last.item = Unlimited
    /\ last.res = Ready(2)
    /\ received = Data

\* C7 as claimed: once next() has returned None, every later invocation
\* delegates to the wrapped stream with the caller's whole buffer and returns
\* its result, whatever the iterator.
C7_Original ==
    (Invoked /\ OpsOf(last.dec).done) => DelegatedWith(last, last.len)

\* C7 as amended: the wrapper calls next() on every invocation, also after
\* next() has returned None; each invocation on which next() returns None
\* delegates to the wrapped stream with the caller's whole buffer and returns
\* its result (so every later invocation does, for an iterator that keeps
\* returning None), and an item yielded after a None is applied like any other.
C7_ExhaustedDelegatesFully ==
    Invoked =>
        /\ OpsOf(last.dec).asked = calls[last.dec]
        /\ last.item = None => DelegatedWith(last, last.len)
        /\ last.item = Pending => DeferredWithWake(last)
        /\ last.item \notin {None, Pending} =>
              DelegatedWith(last, WindowFor(last.op, last.item, last.len))

\* C7 witness: the iterator of a PartialRead has returned None, then an item,
\* then None again; the third poll_read, like the first, was delegated with the
\* caller's whole two-byte buffer.
C7_Witness ==
    /\ last.dec = "PartialRead"
    /\ rops.asked = 3
    /\ rops.taken = 1
    /\ rops.done
    /\ last.item = None
    /\ last.len = 2
    /\ DelegatedWith(last, 2)

\* C8: an invocation returns an error only if the call it delegated to the
\* wrapped stream returned that error, and every error a delegated call returns
\* is returned to the caller as it is.
C8_ErrorsPassThrough ==
    Invoked =>
        /\ IsErr(last.res) =>
              /\ Len(last.delegated) = 1
              /\ last.delegated[1].ret = last.res
              /\ last.delegated[1].answer = <<"err", last.res[2]>>
        /\ \A i \in 1..Len(last.delegated) :
              IsErr(last.delegated[i].ret) => last.res = last.delegated[i].ret

\* C8 witness: a poll_write that consumed a Limited directive returned the
\* writer's BrokenPipe error.
C8_Witness ==
    /\ last.op = "write"
    /\ IsLimited(last.item)
    /\ last.res = Err("BrokenPipe")
    /\ last.delegated # <<>>
    /\ last.delegated[1].answer = <<"err", "BrokenPipe">>

\* The invocations wrapper dec answered without calling the wrapped stream.
DeferredBy(dec) ==
    IF dec = "PartialRead" THEN deferred.read
    ELSE deferred.write + deferred.flush + deferred.close

\* C9 as claimed: every not-ready outcome comes with a wake notification, so
\* the task is never left suspended with no wake outstanding.
C9_Original ==
    /\ (Invoked /\ last.res = OkPending) => last.woke
    /\ task # "suspended"

\* C9 as amended: a not-ready outcome the wrapper produces itself (from a
\* Pending directive) comes with a wake in the same invocation and leaves the
\* task runnable; a wrapper with a list of m directives does so at most m
\* times, and once the list is exhausted every invocation reaches the wrapped
\* stream.  The task is suspended only when the wrapped stream itself answered
\* not-ready: the wrapper passes that on without a wake of its own, the stream
\* holds the waker, and whether the task completes is up to the stream.
C9_OwnNotReadyWakes ==
    /\ (Invoked /\ last.res = OkPending /\ last.delegated = <<>>) =>
            (last.woke /\ task = "runnable")
    /\ task = "suspended" =>
            /\ last.delegated # <<>>
            /\ last.delegated[1].ret = OkPending
            /\ ~last.woke
            /\ stream.waker
    /\ \A dec \in Wrappers : DeferredBy(dec) <= Length(OpsOf(dec))
    /\ (Invoked /\ calls[last.dec] > Length(OpsOf(last.dec))) => last.delegated # <<>>

\* C9 witness: a PartialWrite with the list [Pending, Pending] deferred two
\* poll_write calls, the task stayed runnable, and its third call completed.
C9_Witness ==
    /\ deferred.write = 2
    /\ Length(wops) = 2
    /\ calls.PartialWrite = 3
    /\ task = "runnable"
    /\ last.op = "write"
    /\ last.res = Ready(2)

\* C10: with only Unlimited directives consumed on both wrappers, the bytes
\* read so far followed by the bytes still in the stream are exactly the bytes
\* written so far, in order: nothing is lost, duplicated or reordered, and once
\* the stream is drained the bytes read equal the bytes written.
C10_RoundTrip ==
    (rops.plain /\ wops.plain) =>
        /\ received \o stream.queue = SubSeq(Data, 1, sent)
        /\ stream.queue = <<>> => received = SubSeq(Data, 1, sent)

\* C10 witness: both wrappers consumed an Unlimited directive, all of Data was
\* written through the PartialWrite and read back through the PartialRead.
C10_Witness ==
    /\ rops.plain /\ rops.taken >= 1
    /\ wops.plain /\ wops.taken >= 1
    /\ sent = DataLen
    /\ received = Data
    /\ stream.queue = <<>>

\* C11: a poll_flush or poll_close on a PartialWrite that consumes Pending makes
\* no call on the writer, wakes the task and returns Ok(Pending); one that
\* consumes anything else (Unlimited, Limited(n) for any n) or finds the iterator
\* exhausted calls the writer's flush or close exactly once and returns its
\* result.  The wrapper keeps nothing of a Limited(n) it consumed this way: a
\* later poll_write whose own item is not Limited is delegated with the caller's
\* whole buffer.
C11_FlushCloseIgnoreLimit ==
    /\ (Invoked /\ last.op \in {"flush", "close"}) =>
          /\ last.len = 0
          /\ IF last.item = Pending
             THEN DeferredWithWake(last)
             ELSE DelegatedWith(last, 0) /\ last.bytes = <<>>
    /\ (Invoked /\ last.op = "write" /\ last.item \in {None, Unlimited}) =>
          DelegatedWith(last, last.len)
    /\ stream.seen.flush + deferred.flush + stream.seen.close + deferred.close
         + stream.seen.write + deferred.write = calls.PartialWrite

\* C11 witness: a poll_flush consumed a Limited directive (the only directive,
\* and not Pending, since nothing was deferred) and reached the writer; the
\* poll_write after it found the list exhausted and wrote both bytes.
C11_Witness ==
    /\ calls.PartialWrite = 2
    /\ calls.PartialRead = 0
    /\ wops.taken = 1
    /\ ~wops.plain
    /\ stream.seen.flush = 1
    /\ deferred.flush = 0
    /\ deferred.write = 0
    /\ last.op = "write"
    /\ last.item = None
    /\ last.res = Ready(2)

\* The call a wrapper's operation op outside the directive-aware paths amounts
\* to, made on the wrapped stream itself with the caller's arguments.
PassDirect(s, op, len, buf, e) ==
    CASE op = "vectored_write" -> StreamPollVectoredWrite(s, buf, e)
      [] op = "get_mut" -> StreamPollFlush(s, e)
      [] OTHER -> DirectCall(s, op, len, buf, e)

\* C12: poll_write, poll_flush, poll_close and poll_vectored_write on a
\* PartialRead, poll_read on a PartialWrite, and get_ref and get_mut on either,
\* make no next() call: such a call leaves both iterators and the counts of
\* consumed directives as they were, does to the wrapped stream exactly what the
\* same call made on the stream itself does and returns its result (get_ref
\* changes nothing and shows the stream as it is); so, however such calls are
\* interleaved, the k-th directive-aware invocation on a wrapper still makes
\* the k-th next() call.
C12_PassThroughLeavesOps ==
    /\ [][(passed' # passed) =>
            /\ rops' = rops /\ wops' = wops /\ calls' = calls
            /\ last'.item = NotAsked
            /\ ~last'.woke
            /\ IF last'.op = "get_ref"
               THEN stream' = stream /\ last'.bytes = stream.queue
               ELSE /\ Len(last'.delegated) = 1
                    /\ LET d == PassDirect(stream, last'.op, last'.len, last'.buf,
                                           last'.delegated[1].answer)
                       IN  /\ stream' = d.stream
                           /\ last'.res = d.res
                           /\ last'.bytes = d.bytes]_vars
    /\ [](\A dec \in Wrappers :
             /\ OpsOf(dec).asked = calls[dec]
             /\ OpsOf(dec).taken = Min(calls[dec], Length(OpsOf(dec))))

\* C12 witness: a poll_read was made on the PartialWrite (the only read the
\* stream has seen, and no call was made on the PartialRead); the poll_write
\* after it made the first next() call and was governed by the first directive.
C12_Witness ==
    /\ passed = 1
    /\ calls.PartialRead = 0
    /\ calls.PartialWrite = 1
    /\ stream.seen.read = 1
    /\ last.dec = "PartialWrite"
    /\ last.op = "write"
    /\ last.item = Limited(1)
    /\ wops.asked = 1
    /\ last.res = Ready(1)

\* C13: every candidate the iterator shrink() returns for Limited(n) yields is
\* Limited(k) with 1 <= k < n, also for n > 1: never Limited(0), never Unlimited
\* or Pending; the iterator returned for Unlimited or for Pending yields nothing.
C13_ShrinkLaw ==
    /\ shr.out # None =>
          /\ IsLimited(shr.self)
          /\ IsLimited(shr.out)
          /\ 1 <= shr.out[2]
          /\ shr.out[2] < shr.self[2]
    /\ shr.self \in {Unlimited, Pending} => (shr.out = None /\ shr.n = 0)

\* C13 witness: Limited(5) is shrunk; the second candidate pulled is
\* Limited(4), after Limited(3).
C13_Witness ==
    /\ shr.self = Limited(5)
    /\ shr.n = 2
    /\ shr.out = Limited(4)

\* C14: over any sequence of poll_read calls on a LimitedReader constructed
\* with limit l, the byte counts returned sum to at most l, and a poll_read made
\* once they have summed to l yields no more bytes: what it returns when it
\* completes is Ok(Ready(0)).
C14_LimitedReaderLimits ==
    /\ lim.total <= lim.limit
    /\ (lim.reads > 0 /\ lim.before >= lim.limit /\ IsReady(lim.res)) =>
          lim.res = Ready(0)

\* The call took the first min(len, Len(q)) bytes of the queue q into the
\* buffer, returned that count and left the rest in now.
TookAvailable(q, now) ==
    LET k == Min(mock.len, Len(q)) IN
    /\ mock.res = Ok(k)
    /\ mock.buf = SubSeq(q, 1, k)
    /\ now = SubSeq(q, k + 1, Len(q))

\* C15: MockDuplex.read, whatever the length of the buffer and however much
\* read data was added before (less than the buffer holds, or none), takes the
\* bytes available up to the length of the buffer from the front of the read
\* queue, returns Ok with their number and removes exactly them;
\* drain_write_data does the same with the write queue and returns the number.
C15_MockTakesAvailable ==
    /\ mock.op = "read" =>
          /\ TookAvailable(mock.pre.reads, mock.self.reads)
          /\ mock.self.writes = mock.pre.writes
    /\ mock.op = "drain_write_data" =>
          /\ TookAvailable(mock.pre.writes, mock.self.writes)
          /\ mock.self.reads = mock.pre.reads

\* C16: read_nz! and write_nz! map the poll result their expression evaluates
\* to like this and no other way: Ready(0) makes the enclosing function return
\* an error of kind UnexpectedEof (read_nz!) or WriteZero (write_nz!) with the
\* message given; Ready(n), n > 0, is the value n and the function goes on;
\* Pending makes the function return Pending; an error makes it return that
\* error, converted to its error type and otherwise unchanged.
C16_NonZeroMacros ==
    mac.macro \in {"read_nz", "write_nz"} =>
        LET r == mac.input
            kind == IF mac.macro = "read_nz" THEN "UnexpectedEof" ELSE "WriteZero"
        IN  /\ r = Ready(0) => mac.out = Return(Err(Into(IoError(kind, mac.msg))))
            /\ (IsReady(r) /\ r[2] > 0) => mac.out = Value(r[2])
            /\ r = OkPending => mac.out = Return(OkPending)
            /\ IsErr(r) => mac.out = Return(Err(Into(r[2])))
            /\ mac.out # Looping
            /\ mac.returned <=> ~(IsReady(r) /\ r[2] > 0)

\* C16 witness: the function got 2 from a write_nz! and went on to a read_nz!
\* whose expression evaluated to Ready(0): it returned an UnexpectedEof error.
C16_Witness ==
    /\ mac.uses = 2
    /\ mac.macro = "read_nz"
    /\ mac.input = Ready(0)
    /\ mac.returned
    /\ mac.out = Return(Err(Into(IoError("UnexpectedEof", "eof"))))

\* C17: retry! evaluates its expression again exactly as long as it evaluates
\* to an error of kind Interrupted.  The loop ends at the first evaluation that
\* gives anything else, and only there: an Ok value is the value of retry!, any
\* other error is returned from the enclosing function, converted; an
\* Interrupted error never reaches the caller.
C17_RetryUntilNotInterrupted ==
    mac.macro = "retry" =>
        LET r == mac.input
            interrupted == r[1] = "Err" /\ Kind(r[2]) = "Interrupted"
        IN  /\ mac.out = Looping <=> interrupted
            /\ r[1] = "Ok" => (mac.out = Value(r[2]) /\ ~mac.returned)
            /\ (r[1] = "Err" /\ ~interrupted) =>
                  (mac.out = Return(Err(Into(r[2]))) /\ mac.returned)
            /\ mac.out[1] = "return" => Kind(mac.out[2][2][2]) # "Interrupted"
            /\ mac.again = IF interrupted THEN mac.evals ELSE mac.evals - 1

\* C17 witness: the expression gave Interrupted twice and then Ok(1): retry!
\* evaluated it three times and its value is 1.
C17_Witness ==
    /\ mac.macro = "retry"
    /\ mac.evals = 3
    /\ mac.again = 2
    /\ mac.input = Ok(1)
    /\ mac.out = Value(1)
    /\ ~mac.returned

\* s is a prefix of t.
IsPrefix(s, t) == Len(s) <= Len(t) /\ s = SubSeq(t, 1, Len(s))

\* C18: whatever directives the wrappers consume, a caller that gives
\* poll_write bytes from the front of what has not been accepted yet and
\* advances by each count returned makes the writer receive only prefixes of
\* that remainder: the bytes the writer has accepted are a prefix of the
\* caller's data, the bytes counted as sent, none twice and none skipped; and
\* the bytes poll_read delivers are the reader's bytes in order, none dropped.
C18_DataIntegrity ==
    /\ IsPrefix(received \o stream.queue, Data)
    /\ received \o stream.queue = SubSeq(Data, 1, sent)
    /\ (Invoked /\ last.op = "write" /\ last.delegated # <<>>) =>
          /\ IsPrefix(last.delegated[1].offered, last.buf)
          /\ IsPrefix(last.bytes, last.delegated[1].offered)
          /\ IsReady(last.res) => last.res[2] = Len(last.bytes)
    /\ (Invoked /\ last.op = "read") =>
          /\ IsReady(last.res) => last.res[2] = Len(last.bytes)
          /\ ~IsReady(last.res) => last.bytes = <<>>
          /\ Len(last.bytes) <= Len(received)
          /\ last.bytes = SubSeq(received, Len(received) - Len(last.bytes) + 1,
                                 Len(received))

\* C18 witness: the PartialWrite consumed a Limited directive in one of two
\* poll_write calls that both reached the writer, the two bytes of Data were
\* accepted, and a poll_read on the PartialRead delivered both in order.
C18_Witness ==
    /\ ~wops.plain
    /\ calls.PartialWrite = 2
    /\ stream.seen.write = 2
    /\ sent = DataLen
    /\ last.dec = "PartialRead"
    /\ last.res = Ready(2)
    /\ received = Data

\* C19: Limited(0) is a directive like any other, and no invocation rejects
\* it: a poll_read or poll_write that consumes it with a buffer that is not
\* empty calls the wrapped stream once, with an empty window, and returns what
\* that call returns; when the stream completes the call the result is
\* Ready(0) and no byte moves, however many bytes the stream holds or would
\* take: the result of end-of-stream or of a writer that accepts nothing.
C19_LimitedZero ==
    /\ Limited(0) \in PartialOp
    /\ (Invoked /\ last.item = Limited(0) /\ last.op \in {"read", "write"}) =>
          /\ DelegatedWith(last, 0)
          /\ last.delegated[1].offered = <<>>
          /\ last.bytes = <<>>
          /\ last.delegated[1].answer[1] = "ready" => last.res = Ready(0)
          /\ IsErr(last.res) => last.delegated[1].answer = <<"err", last.res[2]>>

\* C19 witness: a poll_read with a two-byte buffer consumed Limited(0) while
\* the stream held two bytes and could give both; it returned Ready(0) and the
\* two bytes are still in the stream.
C19_Witness ==
    /\ last.op = "read"
    /\ last.item = Limited(0)
    /\ last.len = 2
    /\ last.delegated # <<>>
    /\ last.delegated[1].answer = <<"ready", MaxBuf>>
    /\ last.res = Ready(0)
    /\ Len(stream.queue) = 2

\* Invocation l reached the wrapped stream and the stream did not complete the
\* call: it answered not-ready or failed.
Unfinished(l) == l.delegated # <<>> /\ ~IsReady(l.delegated[1].ret)

\* C20: an invocation whose delegated call returns not-ready or an error has
\* consumed its directive all the same, returns that result and issues no
\* wake (after a not-ready the task stays suspended until the stream uses the
\* waker it holds); the next invocation of the same operation on the same wrapper makes
\* the next next() call and is governed by the item that call returns, not by
\* the directive consumed before: a Limited(n) whose call did not complete
\* does not cap the retry.
C20_DirectiveConsumedWhenUnfinished ==
    /\ []((Invoked /\ Unfinished(last)) =>
            /\ OpsOf(last.dec).asked = calls[last.dec]
            /\ OpsOf(last.dec).taken = Min(calls[last.dec], Length(OpsOf(last.dec)))
            /\ last.res = last.delegated[1].ret
            /\ ~last.woke
            /\ last.res = OkPending => (task = "suspended" <=> stream.waker))
    /\ [][(calls' # calls /\ Invoked /\ Unfinished(last)
              /\ last'.dec = last.dec /\ last'.op = last.op) =>
            /\ (IF last.dec = "PartialRead" THEN rops'.asked = rops.asked + 1
                 ELSE wops'.asked = wops.asked + 1)
            /\ last'.item = None <=> OpsOf(last.dec).left = 0
            /\ IF last'.item = Pending
               THEN last'.delegated = <<>>
               ELSE /\ Len(last'.delegated) = 1
                    /\ last'.delegated[1].window
                          = WindowFor(last'.op, last'.item, last'.len)]_vars

\* C20 witness: a poll_write with a two-byte buffer consumed Limited(1), the
\* writer answered not-ready, and the task is suspended with the directive
\* gone from the list.
C20_Witness ==
    /\ last.op = "write"
    /\ last.item = Limited(1)
    /\ last.len = 2
    /\ Unfinished(last)
    /\ last.res = OkPending
    /\ ~last.woke
    /\ wops.taken = 1
    /\ wops.left = 0
    /\ task = "suspended"

====
